---- MODULE Spec2Model ----
(***************************************************************************)
(* yarws::ThreadPool (src/src/lib.rs): a fixed-size pool of worker threads *)
(* that take Messages from one mpsc channel whose Receiver is shared as    *)
(* Arc<Mutex<Receiver<Message>>>.                                          *)
(*                                                                         *)
(* The pool (caller) thread runs ThreadPool::new, ThreadPool::execute and  *)
(* Drop::drop; every Worker thread runs the loop of Worker::new.  Each     *)
(* action is one atomic step of one of these threads.                      *)
(***************************************************************************)
EXTENDS Integers, Sequences, FiniteSets

\* Largest pool size handed to ThreadPool::new, and the number of calls of
\* ThreadPool::execute the caller makes at most.
MaxSize == 2
MaxJobs == 3

\* What the closure of a job does when it is called (lib.rs:137): it returns,
\* it panics, or it never returns.
JobKinds == {"ok", "fail", "block"}

\* Mutex<Receiver>: the id of the Worker holding the guard, or NoHolder.
NoHolder == -1

VARIABLES
    size,       \* the argument of ThreadPool::new (NoHolder before the call)
    poolPc,     \* where the pool thread is
    workers,    \* ThreadPool.workers: Vec<Worker>, records [id, thread]
    sender,     \* ThreadPool.sender exists (channel created, not yet dropped)
    receiver,   \* strong count of the Arc<Mutex<Receiver>>; 0: Receiver dropped
    lock,       \* holder of the Mutex guarding the Receiver
    queue,      \* messages in the channel, oldest first
    threads,    \* spawned Worker threads: id -> [pc, job, terms]
    jobs,       \* kinds of the jobs handed to execute, in call order
    atDrop,     \* number of execute calls made before drop was called
    drops,      \* number of times the body of drop was entered
    termSent,   \* Terminate messages sent by drop
    joinIdx,    \* position of drop's second loop in workers (1-based)
    dequeued,   \* job numbers in the order Workers received them
    finished,   \* jobs whose closure returned
    failed,     \* jobs whose closure panicked
    rejected,   \* jobs whose execute call panicked (send returned Err)
    discarded   \* jobs dropped unexecuted with the channel's buffer

vars == <<size, poolPc, workers, sender, receiver, lock, queue, threads, jobs,
          atDrop, drops, termSent, joinIdx, dequeued, finished, failed,
          rejected, discarded>>

poolVars ==
    <<size, poolPc, workers, sender, atDrop, drops, termSent, joinIdx>>
jobSets == <<finished, failed, rejected, discarded>>

\* enum Message (lib.rs:8-11)
NewJob(j) == [type |-> "NewJob", job |-> j]
Terminate == [type |-> "Terminate", job |-> 0]

\* The job numbers carried by the NewJob messages of a sequence of messages.
JobsIn(q) == {q[i].job : i \in {k \in 1..Len(q) : q[k].type = "NewJob"}}

\* The ThreadPool value exists: new has returned it and drop has not finished.
PoolPhases == {"ready", "dropSend", "dropJoin", "joining"}

Init ==
    /\ size = NoHolder
    /\ poolPc = "start"
    /\ workers = <<>>
    /\ sender = FALSE
    /\ receiver = 0
    /\ lock = NoHolder
    /\ queue = <<>>
    /\ threads = <<>>
    /\ jobs = <<>>
    /\ atDrop = 0
    /\ drops = 0
    /\ termSent = 0
    /\ joinIdx = 0
    /\ dequeued = <<>>
    /\ finished = {}
    /\ failed = {}
    /\ rejected = {}
    /\ discarded = {}

----------------------------------------------------------------------------
\* ThreadPool::new

\* The assertion with >= in place of >.
SizeNonNegative(n) == n >= 0

\* assert!(size > 0) (lib.rs:42)
SizeOk(n) == n > 0

\* lib.rs:41-48: the assertion, then mpsc::channel() and Arc::new(Mutex::new).
New(n) ==
    /\ poolPc = "start"
    /\ size' = n
    /\ IF SizeOk(n)
       THEN /\ poolPc' = "spawning"
            /\ sender' = TRUE
            /\ receiver' = 1
       ELSE /\ poolPc' = "newPanicked"
            /\ UNCHANGED <<sender, receiver>>
    /\ UNCHANGED <<workers, lock, queue, threads, jobs, atDrop, drops,
                   termSent, joinIdx, dequeued, jobSets>>

\* The loop counting from 1.
NextIdFromOne == Len(workers) + 1

\* The id the loop `for id in 0..size` (lib.rs:50) is at.
NextId == Len(workers)

\* Worker::new (lib.rs:129-151): thread::spawn of the loop, which owns a clone
\* of the Arc, and the Worker { id, thread: Some(thread) } pushed on workers.
Spawn ==
    /\ poolPc = "spawning"
    /\ NextId < size
    /\ workers' = Append(workers, [id |-> NextId, thread |-> TRUE])
    /\ threads' = [i \in DOMAIN threads \cup {NextId} |->
                     IF i = NextId THEN [pc |-> "idle", job |-> 0, terms |-> 0]
                     ELSE threads[i]]
    /\ receiver' = receiver + 1
    /\ UNCHANGED <<size, drops, poolPc, sender, lock, queue, jobs, atDrop,
                   termSent, joinIdx, dequeued, jobSets>>

\* NewReturn of a pool that keeps a clone of the Arc for itself.
NewReturnKeepsArc ==
    /\ poolPc = "spawning"
    /\ Len(workers) >= size
    /\ poolPc' = "ready"
    /\ UNCHANGED <<size, drops, workers, sender, receiver, lock, queue,
                   threads, jobs, atDrop, termSent, joinIdx, dequeued,
                   jobSets>>

\* lib.rs:54: new returns the pool; its local `receiver` Arc is dropped.
NewReturn ==
    /\ poolPc = "spawning"
    /\ NextId >= size
    /\ poolPc' = "ready"
    /\ receiver' = receiver - 1
    /\ UNCHANGED <<size, drops, workers, sender, lock, queue, threads, jobs,
                   atDrop, termSent, joinIdx, dequeued, jobSets>>

----------------------------------------------------------------------------
\* ThreadPool::execute

\* A sending end that is closed as soon as drop is called.
SendClosedAtDrop == receiver > 0 /\ poolPc = "ready"

\* mpsc::Sender::send returns Ok while the Receiver exists, Err once it has
\* been dropped (lib.rs:83).
SendOk == receiver > 0

\* Execute on a channel that hands out the newest message first.
ExecuteFront(k) ==
    /\ poolPc \in PoolPhases
    /\ Len(jobs) < MaxJobs
    /\ jobs' = Append(jobs, k)
    /\ IF receiver > 0
       THEN /\ queue' = <<NewJob(Len(jobs) + 1)>> \o queue
            /\ UNCHANGED rejected
       ELSE /\ rejected' = rejected \cup {Len(jobs) + 1}
            /\ UNCHANGED queue
    /\ UNCHANGED <<poolVars, receiver, lock, threads, dequeued, finished,
                   failed, discarded>>

\* lib.rs:78-84: send(NewJob(job)).unwrap(); the unwrap panics on Err and the
\* job handed back in the SendError is dropped.
Execute(k) ==
    /\ poolPc \in PoolPhases
    /\ Len(jobs) < MaxJobs
    /\ jobs' = Append(jobs, k)
    /\ IF SendOk
       THEN /\ queue' = Append(queue, NewJob(Len(jobs) + 1))
            /\ UNCHANGED rejected
       ELSE /\ rejected' = rejected \cup {Len(jobs) + 1}
            /\ UNCHANGED queue
    /\ UNCHANGED <<poolVars, receiver, lock, threads, dequeued, finished,
                   failed, discarded>>

----------------------------------------------------------------------------
\* The loop of a Worker thread (lib.rs:130-145)

\* A Worker thread ends: its clone of the Arc is dropped; the last clone drops
\* the Receiver and with it the messages still buffered.  `q` is the buffer
\* the thread leaves behind.
ThreadEnds(q) ==
    /\ receiver' = receiver - 1
    /\ IF receiver = 1
       THEN /\ queue' = <<>>
            /\ discarded' = discarded \cup JobsIn(q)
       ELSE /\ queue' = q
            /\ UNCHANGED discarded

\* Lock when the guard is kept until the end of the loop body, so that the
\* mutex is free only while no Worker is calling a job.
LockHeldAcrossJob(w) ==
    /\ threads[w].pc = "idle"
    /\ lock = NoHolder
    /\ \A v \in DOMAIN threads : threads[v].pc # "exec"
    /\ lock' = w
    /\ threads' = [threads EXCEPT ![w].pc = "recv"]
    /\ UNCHANGED <<poolVars, receiver, queue, jobs, dequeued, jobSets>>

\* receiver.lock().unwrap() (lib.rs:131): blocks until the mutex is free.
Lock(w) ==
    /\ threads[w].pc = "idle"
    /\ lock = NoHolder
    /\ lock' = w
    /\ threads' = [threads EXCEPT ![w].pc = "recv"]
    /\ UNCHANGED <<poolVars, receiver, queue, jobs, dequeued, jobSets>>

\* Recv whose guard outlives the `let` statement: the mutex stays locked
\* while the job is called.
RecvKeepsGuard(w) ==
    /\ threads[w].pc = "recv"
    /\ lock = w
    /\ queue # <<>>
    /\ LET message == Head(queue) IN
       IF message.type = "NewJob"
       THEN /\ threads' = [threads EXCEPT ![w].pc = "exec",
                                          ![w].job = message.job]
            /\ dequeued' = Append(dequeued, message.job)
            /\ queue' = Tail(queue)
            /\ UNCHANGED <<lock, receiver, discarded>>
       ELSE /\ threads' = [threads EXCEPT ![w].pc = "exited",
                                          ![w].terms = @ + 1]
            /\ lock' = NoHolder
            /\ ThreadEnds(Tail(queue))
            /\ UNCHANGED dequeued
    /\ UNCHANGED <<poolVars, jobs, finished, failed, rejected>>

\* Recv without the `break` of the Terminate arm: the loop goes on.
RecvNoBreak(w) ==
    /\ threads[w].pc = "recv"
    /\ lock = w
    /\ queue # <<>>
    /\ lock' = NoHolder
    /\ LET message == Head(queue) IN
       IF message.type = "NewJob"
       THEN /\ threads' = [threads EXCEPT ![w].pc = "exec",
                                          ![w].job = message.job]
            /\ dequeued' = Append(dequeued, message.job)
       ELSE /\ threads' = [threads EXCEPT ![w].pc = "idle",
                                          ![w].terms = @ + 1]
            /\ UNCHANGED dequeued
    /\ queue' = Tail(queue)
    /\ UNCHANGED <<poolVars, receiver, jobs, jobSets>>

\* Recv with a receive that leaves the message at the head of the channel.
RecvPeek(w) ==
    /\ threads[w].pc = "recv"
    /\ lock = w
    /\ queue # <<>>
    /\ Len(dequeued) < MaxJobs + 1
    /\ lock' = NoHolder
    /\ LET message == Head(queue) IN
       IF message.type = "NewJob"
       THEN /\ threads' = [threads EXCEPT ![w].pc = "exec",
                                          ![w].job = message.job]
            /\ dequeued' = Append(dequeued, message.job)
            /\ UNCHANGED <<queue, receiver, discarded>>
       ELSE /\ threads' = [threads EXCEPT ![w].pc = "exited",
                                          ![w].terms = @ + 1]
            /\ ThreadEnds(Tail(queue))
            /\ UNCHANGED dequeued
    /\ UNCHANGED <<poolVars, jobs, finished, failed, rejected>>

\* .recv().unwrap() (lib.rs:131) under the guard, which is a temporary of the
\* `let` statement and is dropped at its end; then the match (lib.rs:133-144):
\* a NewJob is called, a Terminate breaks the loop and the thread returns.
Recv(w) ==
    /\ threads[w].pc = "recv"
    /\ lock = w
    /\ queue # <<>>
    /\ lock' = NoHolder
    /\ LET message == Head(queue) IN
       IF message.type = "NewJob"
       THEN /\ threads' = [threads EXCEPT ![w].pc = "exec",
                                          ![w].job = message.job]
            /\ dequeued' = Append(dequeued, message.job)
            /\ queue' = Tail(queue)
            /\ UNCHANGED <<receiver, discarded>>
       ELSE /\ threads' = [threads EXCEPT ![w].pc = "exited",
                                          ![w].terms = @ + 1]
            /\ ThreadEnds(Tail(queue))
            /\ UNCHANGED dequeued
    /\ UNCHANGED <<poolVars, jobs, finished, failed, rejected>>

\* job() returns (lib.rs:137) and the loop starts over.
JobReturn(w) ==
    /\ threads[w].pc = "exec"
    /\ jobs[threads[w].job] = "ok"
    /\ finished' = finished \cup {threads[w].job}
    /\ threads' = [threads EXCEPT ![w].pc = "idle", ![w].job = 0]
    /\ UNCHANGED <<poolVars, receiver, lock, queue, jobs, dequeued, failed,
                   rejected, discarded>>

\* job() panics (lib.rs:137): nothing in the loop catches it, the thread
\* unwinds and ends.  The guard was released before the call.
JobPanic(w) ==
    /\ threads[w].pc = "exec"
    /\ jobs[threads[w].job] = "fail"
    /\ failed' = failed \cup {threads[w].job}
    /\ threads' = [threads EXCEPT ![w].pc = "panicked", ![w].job = 0]
    /\ ThreadEnds(queue)
    /\ UNCHANGED <<poolVars, lock, jobs, dequeued, finished, rejected>>

----------------------------------------------------------------------------
\* Drop for ThreadPool

\* drop is called on the pool (lib.rs:107).
Drop ==
    /\ poolPc = "ready"
    /\ poolPc' = "dropSend"
    /\ atDrop' = Len(jobs)
    /\ drops' = drops + 1
    /\ UNCHANGED <<size, workers, sender, receiver, lock, queue, threads, jobs,
                   termSent, joinIdx, dequeued, jobSets>>

\* DropSend on a channel that hands a Terminate out before the jobs.
DropSendFront ==
    /\ poolPc = "dropSend"
    /\ termSent < Len(workers)
    /\ IF receiver > 0
       THEN /\ queue' = <<Terminate>> \o queue
            /\ termSent' = termSent + 1
            /\ poolPc' = IF termSent + 1 < Len(workers)
                         THEN "dropSend" ELSE "dropJoin"
            /\ joinIdx' = IF termSent + 1 < Len(workers) THEN joinIdx ELSE 1
            /\ UNCHANGED sender
       ELSE /\ poolPc' = "dropPanicked"
            /\ sender' = FALSE
            /\ UNCHANGED <<queue, termSent, joinIdx>>
    /\ UNCHANGED <<size, drops, workers, receiver, lock, threads, jobs,
                   atDrop, dequeued, jobSets>>

\* DropSend without the unwrap: a failed send is ignored.
DropSendIgnoreErr ==
    /\ poolPc = "dropSend"
    /\ termSent < Len(workers)
    /\ queue' = IF receiver > 0 THEN Append(queue, Terminate) ELSE queue
    /\ termSent' = termSent + 1
    /\ poolPc' = IF termSent + 1 < Len(workers) THEN "dropSend" ELSE "dropJoin"
    /\ joinIdx' = IF termSent + 1 < Len(workers) THEN joinIdx ELSE 1
    /\ UNCHANGED <<size, drops, workers, sender, receiver, lock, threads,
                   jobs, atDrop, dequeued, jobSets>>

\* DropSend that sends a single Terminate instead of one per Worker.
DropSendOnce ==
    /\ poolPc = "dropSend"
    /\ termSent < Len(workers)
    /\ IF SendOk
       THEN /\ queue' = Append(queue, Terminate)
            /\ termSent' = termSent + 1
            /\ poolPc' = "dropJoin"
            /\ joinIdx' = 1
            /\ UNCHANGED sender
       ELSE /\ poolPc' = "dropPanicked"
            /\ sender' = FALSE
            /\ UNCHANGED <<queue, termSent, joinIdx>>
    /\ UNCHANGED <<size, drops, workers, receiver, lock, threads, jobs, atDrop,
                   dequeued, jobSets>>

\* One iteration of `for _ in &self.workers` (lib.rs:108-110):
\* send(Terminate).unwrap().  A panic unwinds out of drop and drops the fields.
DropSend ==
    /\ poolPc = "dropSend"
    /\ termSent < Len(workers)
    /\ IF SendOk
       THEN /\ queue' = Append(queue, Terminate)
            /\ termSent' = termSent + 1
            /\ poolPc' = IF termSent + 1 < Len(workers)
                         THEN "dropSend" ELSE "dropJoin"
            /\ joinIdx' = IF termSent + 1 < Len(workers) THEN joinIdx ELSE 1
            /\ UNCHANGED sender
       ELSE /\ poolPc' = "dropPanicked"
            /\ sender' = FALSE
            /\ UNCHANGED <<queue, termSent, joinIdx>>
    /\ UNCHANGED <<size, drops, workers, receiver, lock, threads, jobs, atDrop,
                   dequeued, jobSets>>

\* DropTake that reads the slot without emptying it.
DropTakeKeepsSlot ==
    /\ poolPc = "dropJoin"
    /\ joinIdx <= Len(workers)
    /\ poolPc' = "joining"
    /\ UNCHANGED <<size, drops, workers, joinIdx, sender, receiver, lock,
                   queue, threads, jobs, atDrop, termSent, dequeued, jobSets>>

\* lib.rs:114-116: the next worker of `for worker in &mut self.workers`;
\* worker.thread.take() empties the slot and join() starts to wait.
DropTake ==
    /\ poolPc = "dropJoin"
    /\ joinIdx <= Len(workers)
    /\ IF workers[joinIdx].thread
       THEN /\ workers' = [workers EXCEPT ![joinIdx].thread = FALSE]
            /\ poolPc' = "joining"
            /\ UNCHANGED joinIdx
       ELSE /\ joinIdx' = joinIdx + 1
            /\ UNCHANGED <<workers, poolPc>>
    /\ UNCHANGED <<size, drops, sender, receiver, lock, queue, threads, jobs,
                   atDrop, termSent, dequeued, jobSets>>

\* The thread join() waits for has ended.
ThreadEnded(w) == threads[w].pc \in {"exited", "panicked"}

\* DropJoin that ignores the Result of join (no unwrap).
DropJoinIgnoreErr ==
    /\ poolPc = "joining"
    /\ threads[workers[joinIdx].id].pc \in {"exited", "panicked"}
    /\ poolPc' = "dropJoin"
    /\ joinIdx' = joinIdx + 1
    /\ UNCHANGED <<size, drops, workers, sender, receiver, lock, queue,
                   threads, jobs, atDrop, termSent, dequeued, jobSets>>

\* DropJoin with a join that does not wait for the thread to end.
DropJoinNoWait ==
    /\ poolPc = "joining"
    /\ IF threads[workers[joinIdx].id].pc # "panicked"
       THEN /\ poolPc' = "dropJoin"
            /\ joinIdx' = joinIdx + 1
            /\ UNCHANGED sender
       ELSE /\ poolPc' = "dropPanicked"
            /\ sender' = FALSE
            /\ UNCHANGED joinIdx
    /\ UNCHANGED <<size, drops, workers, receiver, lock, queue, threads,
                   jobs, atDrop, termSent, dequeued, jobSets>>

\* lib.rs:117: thread.join().unwrap() returns once the thread has ended; join
\* gives Err when the thread panicked, and the unwrap panics.
DropJoin ==
    /\ poolPc = "joining"
    /\ ThreadEnded(workers[joinIdx].id)
    /\ IF threads[workers[joinIdx].id].pc = "exited"
       THEN /\ poolPc' = "dropJoin"
            /\ joinIdx' = joinIdx + 1
            /\ UNCHANGED sender
       ELSE /\ poolPc' = "dropPanicked"
            /\ sender' = FALSE
            /\ UNCHANGED joinIdx
    /\ UNCHANGED <<size, drops, workers, receiver, lock, queue, threads,
                   jobs, atDrop, termSent, dequeued, jobSets>>

\* lib.rs:120: drop returns; the fields (workers, sender) are dropped.
DropReturn ==
    /\ poolPc = "dropJoin"
    /\ joinIdx > Len(workers)
    /\ poolPc' = "done"
    /\ sender' = FALSE
    /\ UNCHANGED <<size, drops, workers, receiver, lock, queue, threads,
                   jobs, atDrop, termSent, joinIdx, dequeued, jobSets>>

\* The body of drop (lib.rs:107-120) is entered once more on the same pool
\* after its first run went through both loops: the "# Panics" section of
\* drop (lib.rs:104-106).  The loops start over; workers and sender are as
\* the first run left them.
DropAgain ==
    /\ poolPc = "dropJoin"
    /\ joinIdx > Len(workers)
    /\ drops = 1
    /\ drops' = 2
    /\ poolPc' = "dropSend"
    /\ termSent' = 0
    /\ joinIdx' = 0
    /\ UNCHANGED <<size, workers, sender, receiver, lock, queue, threads,
                   jobs, atDrop, dequeued, jobSets>>

----------------------------------------------------------------------------
\* Specifications

Ids == DOMAIN threads

WorkerStep(w) == Lock(w) \/ Recv(w) \/ JobReturn(w) \/ JobPanic(w)

\* A caller held to the borrow rules: execute(&self) is called only between
\* new and drop.
Next ==
    \/ \E n \in 0..MaxSize : New(n)
    \/ Spawn
    \/ NewReturn
    \/ \E k \in JobKinds : poolPc = "ready" /\ Execute(k)
    \/ \E w \in Ids : Lock(w)
    \/ \E w \in Ids : Recv(w)
    \/ \E w \in Ids : JobReturn(w)
    \/ \E w \in Ids : JobPanic(w)
    \/ Drop
    \/ DropSend
    \/ DropTake
    \/ DropJoin
    \/ DropReturn

Spec == Init /\ [][Next]_vars

\* A caller that is not held to the borrow rules (the "# Panics" sections of
\* execute, lib.rs:75-77): execute is also called while drop is running.
NextLate ==
    \/ \E n \in 0..MaxSize : New(n)
    \/ Spawn
    \/ NewReturn
    \/ \E k \in JobKinds : Execute(k)
    \/ \E w \in Ids : Lock(w)
    \/ \E w \in Ids : Recv(w)
    \/ \E w \in Ids : JobReturn(w)
    \/ \E w \in Ids : JobPanic(w)
    \/ Drop
    \/ DropSend
    \/ DropTake
    \/ DropJoin
    \/ DropReturn

SpecLate == Init /\ [][NextLate]_vars

\* A caller that runs the body of drop a second time on a pool that was shut
\* down (the borrow rules exclude it in safe Rust).
NextRedrop ==
    \/ \E n \in 0..MaxSize : New(n)
    \/ Spawn
    \/ NewReturn
    \/ \E k \in JobKinds : poolPc = "ready" /\ Execute(k)
    \/ \E w \in Ids : Lock(w)
    \/ \E w \in Ids : Recv(w)
    \/ \E w \in Ids : JobReturn(w)
    \/ \E w \in Ids : JobPanic(w)
    \/ Drop
    \/ DropSend
    \/ DropTake
    \/ DropJoin
    \/ DropReturn
    \/ DropAgain

SpecRedrop == Init /\ [][NextRedrop]_vars

\* Scheduling: every Worker is an OS thread of its own (thread::spawn,
\* lib.rs:130) and the pool thread is another, so a step of a thread that stays
\* possible is eventually taken.  std's Mutex promises no order among waiters,
\* so Lock is only weakly fair.  The caller is free never to call execute or
\* drop.
WorkerFair ==
    \A w \in 0..(MaxSize - 1) :
        /\ WF_vars(w \in Ids /\ Lock(w))
        /\ WF_vars(w \in Ids /\ Recv(w))
        /\ WF_vars(w \in Ids /\ JobReturn(w))
        /\ WF_vars(w \in Ids /\ JobPanic(w))

PoolFair ==
    /\ WF_vars(Spawn)
    /\ WF_vars(NewReturn)
    /\ WF_vars(DropSend)
    /\ WF_vars(DropTake)
    /\ WF_vars(DropJoin)
    /\ WF_vars(DropReturn)

\* Any pool size and any jobs, every execute between new and drop, under fair
\* scheduling.
FairAll == Init /\ [][Next]_vars /\ WorkerFair /\ PoolFair

\* Every job returns, the pool has a valid size.
NextOk ==
    \/ \E n \in 1..MaxSize : New(n)
    \/ Spawn
    \/ NewReturn
    \/ poolPc = "ready" /\ Execute("ok")
    \/ \E w \in Ids : Lock(w)
    \/ \E w \in Ids : Recv(w)
    \/ \E w \in Ids : JobReturn(w)
    \/ Drop
    \/ DropSend
    \/ DropTake
    \/ DropJoin
    \/ DropReturn

FairOk == Init /\ [][NextOk]_vars /\ WorkerFair /\ PoolFair

\* Jobs return, except at most one, which never does.
NextBlock ==
    \/ \E n \in 1..MaxSize : New(n)
    \/ Spawn
    \/ NewReturn
    \/ poolPc = "ready" /\ Execute("ok")
    \/ poolPc = "ready" /\ (\A j \in 1..Len(jobs) : jobs[j] # "block")
                        /\ Execute("block")
    \/ \E w \in Ids : Lock(w)
    \/ \E w \in Ids : Recv(w)
    \/ \E w \in Ids : JobReturn(w)
    \/ Drop
    \/ DropSend
    \/ DropTake
    \/ DropJoin
    \/ DropReturn

FairBlock == Init /\ [][NextBlock]_vars /\ WorkerFair /\ PoolFair

\* Jobs return, except at most one, which panics or never returns.
NextOneBad ==
    \/ \E n \in 1..MaxSize : New(n)
    \/ Spawn
    \/ NewReturn
    \/ poolPc = "ready" /\ Execute("ok")
    \/ \E k \in {"fail", "block"} :
          /\ poolPc = "ready"
          /\ \A j \in 1..Len(jobs) : jobs[j] = "ok"
          /\ Execute(k)
    \/ \E w \in Ids : Lock(w)
    \/ \E w \in Ids : Recv(w)
    \/ \E w \in Ids : JobReturn(w)
    \/ \E w \in Ids : JobPanic(w)
    \/ Drop
    \/ DropSend
    \/ DropTake
    \/ DropJoin
    \/ DropReturn

FairOneBad == Init /\ [][NextOneBad]_vars /\ WorkerFair /\ PoolFair

----------------------------------------------------------------------------
\* Properties

\* The jobs whose execute call returned, i.e. that were enqueued.
Submitted == (1..Len(jobs)) \ rejected

\* The Workers that are calling job j.
Executing(j) == {w \in Ids : threads[w].pc = "exec" /\ threads[w].job = j}

\* How many times job j has been received by a Worker.
TimesDequeued(j) == Cardinality({i \in 1..Len(dequeued) : dequeued[i] = j})

\* C1 as stated: every submitted job is received at most once and called by at
\* most one Worker, and it is in the channel, being called, or has been called.
C1_Original ==
    \A j \in Submitted :
        /\ TimesDequeued(j) <= 1
        /\ Cardinality(Executing(j)) <= 1
        /\ \/ j \in JobsIn(queue)
           \/ Executing(j) # {}
           \/ j \in finished \cup failed

\* The number of places job j is in: the channel, a Worker calling it, the
\* jobs that were called, the jobs dropped with the channel's buffer.
Places(j) ==
    Cardinality({i \in 1..Len(queue) : queue[i] = NewJob(j)})
    + Cardinality(Executing(j))
    + (IF j \in finished \cup failed THEN 1 ELSE 0)
    + (IF j \in discarded THEN 1 ELSE 0)

\* C1 (amended): every submitted job is received at most once and called at
\* most once, by one Worker, and it is in exactly one place: in the channel,
\* being called, called, or dropped uncalled with the channel's buffer; the
\* last happens only once every Worker thread has ended, and to a job
\* submitted before drop only after a job has panicked.
C1_ExactlyOnce ==
    \A j \in Submitted :
        /\ TimesDequeued(j) <= 1
        /\ Places(j) = 1
        /\ (j \in finished \cup failed \/ Executing(j) # {})
              <=> TimesDequeued(j) = 1
        /\ j \in discarded => receiver = 0 /\ failed # {}

\* Two jobs have been called and returned while a third is being called.
C1_Witness ==
    /\ Cardinality(finished) >= 2
    /\ \E j \in Submitted : Executing(j) # {}
    /\ C1_Original

\* C2: once drop has returned, every one of the `size` Worker threads has
\* ended and every job submitted before drop was called has been called.
C2_ShutdownJoinsAll ==
    poolPc = "done" =>
        /\ Cardinality(Ids) = size
        /\ \A w \in Ids : ThreadEnded(w)
        /\ \A w \in Ids : threads[w].pc = "exited"
        /\ \A j \in 1..atDrop : j \in finished \cup failed

\* drop has returned on a pool of two Workers that was given two jobs.
C2_Witness ==
    /\ poolPc = "done"
    /\ size >= 2
    /\ atDrop >= 2

\* C3: with a valid size and jobs that all return, no call on the pool panics,
\* and under fair scheduling a drop that was called returns.
C3_ShutdownReturns ==
    /\ [](poolPc \notin {"newPanicked", "dropPanicked"} /\ rejected = {})
    /\ (poolPc = "dropSend") ~> (poolPc = "done")

\* drop has returned after every job the caller may submit was called.
C3_Witness ==
    /\ poolPc = "done"
    /\ Len(jobs) = MaxJobs
    /\ finished = 1..MaxJobs

\* The Workers inside a job that never returns.
Blocked ==
    {w \in Ids : threads[w].pc = "exec" /\ jobs[threads[w].job] = "block"}

\* C4: in a pool of two or more Workers, while one Worker is inside a job that
\* never returns, every job in the channel is eventually called (and returns)
\* on another Worker, under fair scheduling.
C4_BlockedJobDoesNotStall ==
    \A j \in 1..MaxJobs :
        (size >= 2 /\ Blocked # {} /\ j \in JobsIn(queue)) ~> (j \in finished)

\* A job submitted after the blocking job has returned while the blocking job
\* still occupies its Worker.
C4_Witness ==
    /\ size >= 2
    /\ \E w \in Blocked : \E j \in finished : j > threads[w].job

\* The jobs handed to execute after drop was called.
LateJobs ==
    IF poolPc \in {"start", "spawning", "newPanicked", "ready"}
    THEN {}
    ELSE (atDrop + 1)..Len(jobs)

AllThreadsEnded == \A w \in Ids : ThreadEnded(w)

\* A step of execute called after drop was called.
LateExecuteStep == Len(jobs') = Len(jobs) + 1 /\ poolPc # "ready"

C6_ZeroSizePanics ==
    size = 0 =>
        /\ poolPc = "newPanicked"
        /\ ~sender
        /\ receiver = 0
        /\ workers = <<>>
        /\ Ids = {}

\* new(0) was called.
C6_Witness == size = 0 /\ poolPc = "newPanicked"

\* C7: new(size) with size > 0 does not panic, and from its return on the
\* pool holds exactly `size` Workers, the i-th with id i - 1, each with a
\* thread of its own.
C7_WorkerCount ==
    size > 0 =>
        /\ poolPc # "newPanicked"
        /\ poolPc \notin {"start", "spawning"} =>
              /\ Len(workers) = size
              /\ \A i \in 1..Len(workers) : workers[i].id = i - 1
              /\ Ids = 0..(size - 1)

\* A pool of two Workers that has executed a job and is being shut down.
C7_Witness ==
    /\ size >= 2
    /\ poolPc = "joining"
    /\ finished # {}

\* C8: Workers receive the jobs in the order execute was called (jobs are
\* numbered in call order): a job is received after every job submitted
\* before it.
C8_FifoDequeue ==
    /\ \A i \in 1..Len(dequeued) : \A k \in 1..Len(dequeued) :
          i < k => dequeued[i] < dequeued[k]
    /\ \A k \in 1..Len(dequeued) : \A j \in Submitted :
          j < dequeued[k] => \E i \in 1..(k - 1) : dequeued[i] = j

\* Three jobs were received in order, the second returned before the first.
C8_Witness ==
    /\ Len(dequeued) >= 3
    /\ 2 \in finished
    /\ Executing(1) # {}

\* C9: drop sends one Terminate per Worker, all of them before the first
\* join; no Worker receives two, and when drop has returned every Worker has
\* received one.
C9_OneTerminateEach ==
    /\ termSent <= Len(workers)
    /\ poolPc \in {"dropJoin", "joining", "done"} => termSent = size
    /\ \A w \in Ids : threads[w].terms <= 1
    /\ \A w \in Ids : threads[w].terms = 1 <=> threads[w].pc = "exited"
    /\ poolPc = "done" => \A w \in Ids : threads[w].terms = 1

\* drop has returned on a pool of two Workers that executed jobs.
C9_Witness ==
    /\ poolPc = "done"
    /\ size >= 2
    /\ termSent = size
    /\ finished # {}

\* The Worker threads that ended in a panic.
Panicked == {w \in Ids : threads[w].pc = "panicked"}

\* What C10 says of the Workers: a Worker whose job panicked is out of the
\* loop, and a panicking job ends the thread of its own Worker only.
C10_Workers ==
    /\ \A w \in Panicked : threads[w].job = 0 /\ lock # w
    /\ Cardinality(Panicked) = Cardinality(failed)

\* C10 as stated: the above, and a job's panic is not reported to the caller
\* later, in particular drop does not panic.
C10_Original ==
    /\ C10_Workers
    /\ failed # {} => poolPc # "dropPanicked"

\* C10 (amended): a Worker whose job panicked is out of the loop for good and
\* the other Workers are not affected; the panic is not reported while a
\* Worker thread is alive and drop has not been called, but it is reported
\* later: execute panics once every Worker thread has ended, and drop does not
\* return after a job has panicked (it panics, and only then).
C10_FailureSurfacesAtShutdown ==
    /\ [](C10_Workers)
    /\ [][\A w \in Panicked : threads'[w] = threads[w]]_vars
    /\ [](poolPc = "ready" /\ rejected # {} => AllThreadsEnded)
    /\ [](poolPc = "done" => failed = {})
    /\ [](poolPc = "dropPanicked" => failed # {})

\* drop has panicked although another Worker ran on until its Terminate.
C10_Witness ==
    /\ poolPc = "dropPanicked"
    /\ failed # {}
    /\ finished # {}
    /\ \E w \in Ids : threads[w].pc = "exited"

\* C11: a second run of the body of drop, entered after the first run went
\* through both loops, panics at its first send: it sends no Terminate, joins
\* no Worker and does not return.
C11_SecondDropPanics ==
    drops = 2 =>
        /\ poolPc \in {"dropSend", "dropPanicked"}
        /\ termSent = 0
        /\ AllThreadsEnded
        /\ \A i \in 1..Len(workers) : ~workers[i].thread

\* The second run of drop has panicked.
C11_Witness ==
    /\ drops = 2
    /\ poolPc = "dropPanicked"
    /\ size >= 2
    /\ finished # {}

\* The Workers inside lock().unwrap().recv(), from the moment lock() returned.
Receiving == {w \in Ids : threads[w].pc = "recv"}

\* C12: the mutex is held exactly by the Worker that is inside recv(), by at
\* most one Worker at a time, and never by a Worker that is calling a job.
C12_LockOnlyAroundRecv ==
    /\ Cardinality(Receiving) <= 1
    /\ \A w \in Ids : lock = w <=> w \in Receiving
    /\ \A w \in Ids : threads[w].pc = "exec" => lock # w
    /\ lock # NoHolder => lock \in Ids

\* One Worker is calling a job while another holds the mutex in recv().
C12_Witness ==
    /\ lock # NoHolder
    /\ \E w \in Ids : threads[w].pc = "exec" /\ lock # w

\* C13: a Worker that has received a Terminate has left the loop, and from
\* then on it does not lock the mutex, receive a message or call a job: its
\* thread stays as it is.
C13_TerminatedAbsorbing ==
    /\ [](\A w \in Ids : threads[w].terms >= 1 =>
              /\ threads[w].pc = "exited"
              /\ threads[w].job = 0
              /\ lock # w)
    /\ [][\A w \in Ids : threads[w].terms >= 1 =>
              /\ threads'[w] = threads[w]
              /\ lock' # w]_vars

\* One Worker has terminated while another calls a job.
C13_Witness ==
    /\ \E w \in Ids : threads[w].pc = "exited"
    /\ \E w \in Ids : threads[w].pc = "exec"

\* The positions of workers whose thread slot is empty.
Taken == {i \in 1..Len(workers) : ~workers[i].thread}

\* C14: drop takes the first thread handle only after it sent all `size`
\* Terminates, takes the handles in the order of workers, and takes a handle
\* only after the Workers before it have exited.
C14_SendThenJoinInOrder ==
    /\ Taken # {} => termSent = size
    /\ \A i \in Taken : \A k \in 1..(i - 1) :
          /\ k \in Taken
          /\ threads[workers[k].id].pc = "exited"
    /\ poolPc = "joining" => Taken = 1..joinIdx
    /\ poolPc = "dropJoin" => Taken = 1..(joinIdx - 1)
    /\ poolPc = "done" => Taken = 1..size

\* drop waits for the second Worker, which is still running, after the first
\* has exited.
C14_Witness ==
    /\ poolPc = "joining"
    /\ joinIdx = 2
    /\ ~ThreadEnded(workers[2].id)

\* C15: every slot is Some from the push of its Worker until drop takes it in
\* its join loop; it is emptied there and by no other step, and an empty slot
\* stays empty; when drop has returned every slot is empty.
C15_SlotTakenOnce ==
    /\ [](poolPc \in {"spawning", "ready", "dropSend"} => Taken = {})
    /\ [](poolPc = "joining" => joinIdx \in Taken)
    /\ [](poolPc = "done" => Taken = 1..Len(workers))
    /\ [][/\ Len(workers') >= Len(workers)
          /\ \A i \in 1..Len(workers) :
                workers'[i] # workers[i] =>
                    /\ workers[i].thread
                    /\ ~workers'[i].thread
                    /\ workers'[i].id = workers[i].id
                    /\ poolPc = "dropJoin" /\ poolPc' = "joining"
                    /\ joinIdx = i
          /\ \A i \in (Len(workers) + 1)..Len(workers') :
                workers'[i].thread]_vars

\* The first slot is empty, the second still holds its handle, and jobs were
\* submitted and called in between.
C15_Witness ==
    /\ Taken = {1}
    /\ Len(workers) = 2
    /\ finished # {}

\* C16: when no job has panicked (and every execute came before drop), a
\* Worker receives a Terminate only after every submitted job was received:
\* no job is in the channel once a Worker has terminated.
C16_JobsBeforeTerminate ==
    (failed = {} /\ \E w \in Ids : threads[w].terms >= 1) =>
        /\ JobsIn(queue) = {}
        /\ \A j \in 1..Len(jobs) : TimesDequeued(j) = 1

\* A Worker has terminated while another still calls one of two jobs.
C16_Witness ==
    /\ failed = {}
    /\ Len(jobs) >= 2
    /\ \E w \in Ids : threads[w].terms >= 1
    /\ \E w \in Ids : threads[w].pc = "exec"

\* C17: drop returns only if no Worker thread ended in a panic, and it panics
\* only if one did: either at a send, with every Worker thread ended and no
\* handle taken, or at the join of the first panicked Worker in the order of
\* workers, with the Workers before it joined and the handles behind it left
\* in their slots.  When every submitted job returns or panics, a drop that
\* was called ends one way or the other under fair scheduling.
C17_DropReturnsIffNoPanic ==
    /\ [](poolPc = "done" => Panicked = {})
    /\ [](poolPc = "dropPanicked" =>
            /\ Panicked # {}
            /\ \/ /\ termSent < size
                  /\ AllThreadsEnded
                  /\ Taken = {}
               \/ /\ termSent = size
                  /\ Taken = 1..joinIdx
                  /\ workers[joinIdx].id \in Panicked
                  /\ \A k \in 1..(joinIdx - 1) :
                        threads[workers[k].id].pc = "exited")
    /\ (poolPc = "dropSend" /\ \A j \in 1..Len(jobs) : jobs[j] # "block")
          ~> (poolPc \in {"done", "dropPanicked"})

\* drop has panicked at the join of the first Worker and has left the handle
\* of the second, whose thread exited, in its slot.
C17_Witness ==
    /\ poolPc = "dropPanicked"
    /\ termSent = size
    /\ joinIdx = 1
    /\ Len(workers) = 2
    /\ workers[2].thread
    /\ threads[workers[2].id].pc = "exited"

\* A step in which execute sends its NewJob.
ExecuteSendStep == Len(jobs') = Len(jobs) + 1

\* A step in which drop sends a Terminate.
DropSendStep ==
    /\ poolPc = "dropSend"
    /\ termSent' = termSent + 1 \/ poolPc' = "dropPanicked"

\* C18: from the return of new on, the Receiver exists exactly while a Worker
\* thread is alive; a send, by execute or by drop, panics without enqueuing
\* exactly when every Worker thread has ended, and enqueues its message
\* otherwise, before as well as after drop was called.
C18_SendFailsIffAllEnded ==
    /\ [](poolPc \in PoolPhases =>
            receiver = Cardinality({w \in Ids : ~ThreadEnded(w)}))
    /\ [][ExecuteSendStep =>
            IF AllThreadsEnded
            THEN /\ Len(jobs') \in rejected'
                 /\ queue' = queue
            ELSE /\ Len(jobs') \notin rejected'
                 /\ queue' = Append(queue, NewJob(Len(jobs')))]_vars
    /\ [][DropSendStep =>
            IF AllThreadsEnded
            THEN /\ poolPc' = "dropPanicked"
                 /\ queue' = queue
            ELSE /\ poolPc' # "dropPanicked"
                 /\ queue' = Append(queue, Terminate)]_vars

\* In a pool of size 1 whose Worker died on a panicking job, an execute
\* called before drop has panicked.
C18_Witness ==
    /\ size = 1
    /\ poolPc = "ready"
    /\ failed # {}
    /\ rejected # {}

\* The Workers in the loop that are not calling a job: waiting for the mutex
\* or inside recv().
Waiting == {w \in Ids : threads[w].pc \in {"idle", "recv"}}

\* The Worker threads that have left the loop on a Terminate.
Exited == {w \in Ids : threads[w].pc = "exited"}

\* C19 as stated, for the NewJob messages: under fair scheduling a job that is
\* in the channel while some Worker is in the loop and not calling a job is
\* eventually received.
C19_Original ==
    \A j \in 1..MaxJobs :
        (j \in JobsIn(queue) /\ Waiting # {}) ~> (TimesDequeued(j) >= 1)

\* C19 (amended): a Worker inside recv() holds the mutex, also on an empty
\* channel, and the other Workers that are not calling a job wait for the
\* mutex; under fair scheduling, whenever a message is in the channel and a
\* Worker is in the loop and not calling a job, the message at the head of
\* the channel is eventually received.
C19_HeadEventuallyDequeued ==
    /\ [](\A w \in Waiting : threads[w].pc = "recv" <=> lock = w)
    /\ \A j \in 1..MaxJobs :
          (queue # <<>> /\ Head(queue) = NewJob(j) /\ Waiting # {})
             ~> (TimesDequeued(j) >= 1)
    /\ \A n \in 0..MaxSize :
          (queue # <<>> /\ Head(queue) = Terminate /\ Waiting # {}
             /\ Cardinality(Exited) = n)
             ~> (Cardinality(Exited) > n)

\* A Worker blocks in recv() on the empty channel, holding the mutex, while
\* another Worker waits for the mutex, after a job was received and called.
C19_Witness ==
    /\ queue = <<>>
    /\ lock # NoHolder
    /\ \E w \in Ids : threads[w].pc = "idle"
    /\ finished # {}

====
